---- MODULE Spec2Model ----
(***************************************************************************)
(* Model of the gold "then vs today" calculator (src/tetsing.py): the spot *)
(* price resolver, the historical series fetcher, the date helpers and the *)
(* Calculate handler that chains them.                                     *)
(*                                                                         *)
(* Python floats are kept as fixed-point integers in hundredths, wrapped   *)
(* in a record [t, v] so that None, nan and a raised exception are values  *)
(* of the same shape: t is "float", "nan", "none" or "raise".              *)
(***************************************************************************)
EXTENDS Integers, Sequences, FiniteSets, TLC

VARIABLES
    pc,              \* position of the Calculate handler / resolver
    idx,             \* index of the API candidate the for loop is at
    contacted,       \* history: sources fetched so far, in order
    yielded,         \* history: what each contacted source produced
    payload,         \* the last response body received by the resolver
    spot,            \* return value of get_spot_usd_per_oz
    purchase_price,  \* widget value
    years_ago,       \* widget value
    target,          \* years_ago_date(int(years_ago))
    outcome,         \* how the handler run ended
    res,             \* the values the handler displays
    csv_rows,        \* what fetch gives get_stooq_series when run on its own
    s_out,           \* its return value
    c_series,        \* input of closest_price
    c_target,        \* input of closest_price
    c_best,          \* its return value
    y_today,         \* date.today() seen by years_ago_date
    y_n,             \* argument of years_ago_date
    y_ret,           \* its return value
    fpc              \* position of a function run on its own

vars == <<pc, idx, contacted, yielded, payload, spot, purchase_price,
          years_ago, target, outcome, res, csv_rows, s_out, c_series,
          c_target, c_best, y_today, y_n, y_ret, fpc>>

pipeVars == <<pc, idx, contacted, yielded, payload, spot, purchase_price,
              years_ago, target, outcome, res>>

fnVars == <<csv_rows, s_out, c_series, c_target, c_best, y_today, y_n,
            y_ret, fpc>>

----------------------------------------------------------------------------
(* Bounds of the model *)

MaxNumLen == 4      \* length of the generated number texts in the widget JS
MaxRows == 2        \* CSV data rows per fetched file
MaxSeriesLen == 3   \* length of the series handed to closest_price
MaxYearsBack == 5   \* largest small n given to years_ago_date

----------------------------------------------------------------------------
(* Values *)

None == [t |-> "none", v |-> 0]
NaN == [t |-> "nan", v |-> 0]
Raise == [t |-> "raise", v |-> 0]

\* a Python float holding x hundredths
F(x) == [t |-> "float", v |-> x]

Min(a, b) == IF a < b THEN a ELSE b

Abs(x) == IF x < 0 THEN -x ELSE x

TROY_OUNCE_IN_GRAMS == 3110

\* a / b on Python floats: ZeroDivisionError when b is 0.0, nan propagates
FDiv(a, b) ==
    IF a.t = "raise" \/ b.t = "raise" THEN Raise
    ELSE IF b.t = "float" /\ b.v = 0 THEN Raise
    ELSE IF a.t = "nan" \/ b.t = "nan" THEN NaN
    ELSE F((a.v * 100) \div b.v)

----------------------------------------------------------------------------
(* datetime.date *)

IsLeap(y) == (y % 4 = 0) /\ ((y % 100 # 0) \/ (y % 400 = 0))

DaysInMonth(y, m) ==
    IF m = 2 THEN (IF IsLeap(y) THEN 29 ELSE 28)
    ELSE IF m \in {4, 6, 9, 11} THEN 30 ELSE 31

ValidDate(y, m, d) ==
    /\ y \in 1..9999
    /\ m \in 1..12
    /\ d \in 1..DaysInMonth(y, m)

NoDate == [y |-> 0, m |-> 0, d |-> 0]

RaiseDate == [y |-> -1, m |-> 0, d |-> 0]

\* date(y, m, d): ValueError outside the calendar
MkDate(y, m, d) ==
    IF ValidDate(y, m, d) THEN [y |-> y, m |-> m, d |-> d] ELSE RaiseDate

RECURSIVE DaysBeforeMonth(_, _)
DaysBeforeMonth(y, m) ==
    IF m <= 1 THEN 0 ELSE DaysBeforeMonth(y, m - 1) + DaysInMonth(y, m - 1)

\* date.toordinal()
Ordinal(dt) ==
    LET p == dt.y - 1
    IN  p * 365 + (p \div 4) - (p \div 100) + (p \div 400)
        + DaysBeforeMonth(dt.y, dt.m) + dt.d

\* d1 < d2 on dates
DateLess(d1, d2) == Ordinal(d1) < Ordinal(d2)

\* dt - timedelta(days=1): OverflowError below date.min
MinusOneDay(dt) ==
    IF dt.d > 1 THEN [y |-> dt.y, m |-> dt.m, d |-> dt.d - 1]
    ELSE IF dt.m > 1
         THEN [y |-> dt.y, m |-> dt.m - 1, d |-> DaysInMonth(dt.y, dt.m - 1)]
    ELSE IF dt.y > 1 THEN [y |-> dt.y - 1, m |-> 12, d |-> 31]
    ELSE RaiseDate

\* years_ago_date with the clamp forgetting to step back one day
years_ago_date_no_step(today, n) ==
    LET y == today.y - n
        same == MkDate(y, today.m, today.d)
        first_next == IF today.m = 12 THEN MkDate(y + 1, 1, 1)
                      ELSE MkDate(y, today.m + 1, 1)
    IN  IF same # RaiseDate THEN same ELSE first_next

years_ago_date(today, n) ==
    LET y == today.y - n
        same == MkDate(y, today.m, today.d)
        first_next == IF today.m = 12 THEN MkDate(y + 1, 1, 1)
                      ELSE MkDate(y, today.m + 1, 1)
    IN  IF same # RaiseDate THEN same
        ELSE IF first_next = RaiseDate THEN RaiseDate
        ELSE MinusOneDay(first_next)

----------------------------------------------------------------------------
(* closest_price: a price point is [date, price] *)

NoPoint == [date |-> NoDate, price |-> None]

\* the scan with <= in place of < : the last minimum wins
RECURSIVE ClosestScanLast(_, _, _, _, _)
ClosestScanLast(series, tgt, i, best, best_delta) ==
    IF i > Len(series) THEN best
    ELSE LET delta == Abs(Ordinal(series[i].date) - Ordinal(tgt))
         IN  IF best = NoPoint \/ delta <= best_delta
             THEN ClosestScanLast(series, tgt, i + 1, series[i], delta)
             ELSE ClosestScanLast(series, tgt, i + 1, best, best_delta)

RECURSIVE ClosestScan(_, _, _, _, _)
ClosestScan(series, tgt, i, best, best_delta) ==
    IF i > Len(series) THEN best
    ELSE LET delta == Abs(Ordinal(series[i].date) - Ordinal(tgt))
         IN  IF best = NoPoint \/ delta < best_delta
             THEN ClosestScan(series, tgt, i + 1, series[i], delta)
             ELSE ClosestScan(series, tgt, i + 1, best, best_delta)

closest_price(series, tgt) ==
    IF Len(series) = 0 THEN NoPoint
    ELSE ClosestScan(series, tgt, 1, NoPoint, 0)

----------------------------------------------------------------------------
(* get_stooq_series.  A CSV line is [ncols, d_s, close_s]: d_s is the text *)
(* of column 0, [fmt, y, m, d] with fmt saying whether it matches          *)
(* ^\d{4}-\d{2}-\d{2}$ ; close_s is the text of column 4, [t, v] with      *)
(* t = "bad" for a text float() rejects.                                   *)

\* float(close_s)
ParseClose(close_s) ==
    IF close_s.t = "float" THEN F(close_s.v)
    ELSE IF close_s.t = "nan" THEN NaN
    ELSE Raise

\* one iteration of the row loop: the point appended, or NoPoint
ParseRow(row) ==
    IF row.ncols < 5 THEN NoPoint
    ELSE IF ~row.d_s.fmt THEN NoPoint
    ELSE LET dt == MkDate(row.d_s.y, row.d_s.m, row.d_s.d)
             v == ParseClose(row.close_s)
         IN  IF dt = RaiseDate \/ v = Raise THEN NoPoint
             ELSE [date |-> dt, price |-> v]

RECURSIVE ParseRows(_)
ParseRows(rows) ==
    IF rows = <<>> THEN <<>>
    ELSE LET p == ParseRow(Head(rows))
         IN  IF p = NoPoint THEN ParseRows(Tail(rows))
             ELSE <<p>> \o ParseRows(Tail(rows))

\* insert p after every element whose date is not later (stable)
RECURSIVE InsertByDate(_, _)
InsertByDate(sorted, p) ==
    IF sorted = <<>> THEN <<p>>
    ELSE IF DateLess(p.date, Head(sorted).date) THEN <<p>> \o sorted
    ELSE <<Head(sorted)>> \o InsertByDate(Tail(sorted), p)

\* the series left in file order
UnsortedByDate(out) == out

\* out.sort(key=lambda t: t[0])
RECURSIVE SortByDate(_)
SortByDate(out) ==
    IF out = <<>> THEN <<>>
    ELSE InsertByDate(SortByDate(SubSeq(out, 1, Len(out) - 1)), out[Len(out)])

\* resp is what fetch gives: [ok, lines]; ok = FALSE when fetch raises
get_stooq_series(resp) ==
    IF ~resp.ok THEN <<>>
    ELSE IF resp.lines = <<>> THEN <<>>
    ELSE SortByDate(ParseRows(Tail(resp.lines)))

----------------------------------------------------------------------------
(* JSON payloads of the structured API.                                    *)
(* A JSON value is [t, v]: t is "absent" (key not in the mapping), "num",  *)
(* "nan", "bool" (true), "str" or "huge" (an integer float() overflows on).*)
(* A response is [kind, items, item, top]:                                 *)
(*   kind   "neterr" (fetch raises), "badjson" (json.loads raises),        *)
(*          "other" (valid JSON that is not a mapping), "dict";            *)
(*   items  what obj["items"] is: "absent", "falsy" (empty list, 0, null,  *)
(*          ""), "list" (non-empty list or string), "dict" (non-empty      *)
(*          mapping, so [0] is a KeyError),                                *)
(*          "scalar" (non-zero number or true);                            *)
(*   item   what obj["items"][0] is, [t, m]: "dict" with mapping m,        *)
(*          "scalar" (number, null, bool), "text" (a string or list that   *)
(*          holds none of the field names), "textkey" (one that does);     *)
(*   top    the top-level mapping's known fields.                          *)

API_CANDIDATES == <<"USD", "XAU">>

WIDGET_JS == "WIDGET"

FieldNames == <<"xauPrice", "price", "ask", "lastPrice">>

Fields == {FieldNames[i] : i \in 1..Len(FieldNames)}

JAbsent == [t |-> "absent", v |-> 0]

JStr == [t |-> "str", v |-> 0]

JNum(n) == [t |-> "num", v |-> n]

JTrue == [t |-> "bool", v |-> 1]

JNaN == [t |-> "nan", v |-> 0]

JHuge == [t |-> "huge", v |-> 0]

\* k in m and isinstance(m[k], (int, float)); bool is a subclass of int
IsNumeric(jv) == jv.t \in {"num", "bool", "nan", "huge"}

\* float(m[k])
ToFloat(jv) ==
    IF jv.t = "huge" THEN Raise
    ELSE IF jv.t = "nan" THEN NaN
    ELSE F(jv.v * 100)

\* the field scan with the priority order reversed
RECURSIVE ScanFieldsReversed(_, _)
ScanFieldsReversed(m, i) ==
    IF i > Len(FieldNames) THEN None
    ELSE LET k == FieldNames[Len(FieldNames) + 1 - i]
         IN  IF IsNumeric(m[k]) THEN ToFloat(m[k])
             ELSE ScanFieldsReversed(m, i + 1)

\* for k in ("xauPrice","price","ask","lastPrice"): first numeric field
RECURSIVE ScanFields(_, _)
ScanFields(m, i) ==
    IF i > Len(FieldNames) THEN None
    ELSE IF IsNumeric(m[FieldNames[i]]) THEN ToFloat(m[FieldNames[i]])
    ELSE ScanFields(m, i + 1)

\* the first-item block: a float returned, Raise, or None to fall through
ScanItems(resp) ==
    IF resp.items \in {"absent", "falsy"} THEN None
    ELSE IF resp.items \in {"dict", "scalar"} THEN Raise
    ELSE IF resp.item.t \in {"scalar", "textkey"} THEN Raise
    ELSE IF resp.item.t = "text" THEN None
    ELSE ScanFields(resp.item.m, 1)

\* the try block without its except clause: the exception escapes
ApiValueNoExcept(resp) ==
    IF resp.kind \in {"neterr", "badjson"} THEN Raise
    ELSE IF resp.kind # "dict" THEN None
    ELSE LET fromItem == ScanItems(resp)
         IN  IF fromItem # None THEN fromItem
             ELSE ScanFields(resp.top, 1)

\* the try block with the top-level scan in an else branch of the items test
ApiValueElse(resp) ==
    IF resp.kind # "dict" THEN None
    ELSE IF resp.items \notin {"absent", "falsy"}
    THEN LET fromItem == ScanItems(resp)
         IN  IF fromItem = Raise THEN None ELSE fromItem
    ELSE LET fromTop == ScanFields(resp.top, 1)
         IN  IF fromTop = Raise THEN None ELSE fromTop

\* body of the try block for one candidate: the float returned, or None
\* when the loop moves on (an exception is swallowed by the except clause)
ApiValue(resp) ==
    IF resp.kind # "dict" THEN None
    ELSE LET fromItem == ScanItems(resp)
         IN  IF fromItem = Raise THEN None
             ELSE IF fromItem # None THEN fromItem
             ELSE LET fromTop == ScanFields(resp.top, 1)
                  IN  IF fromTop = Raise THEN None ELSE fromTop

----------------------------------------------------------------------------
(* The widget script text is a sequence of tokens: a digit, one of         *)
(* "," "." ":" "=" " " and the double quote, or a word ("USD", a field     *)
(* name, "x" for any other letter).                                        *)

DigitChars == <<"0", "1", "2", "3", "4", "5", "6", "7", "8", "9">>

IsDigit(t) == \E i \in 1..Len(DigitChars) : DigitChars[i] = t

DigitVal(t) == (CHOOSE i \in 1..Len(DigitChars) : DigitChars[i] = t) - 1

Quote == "\""

\* \w : digits and letters
IsWordTok(t) == IsDigit(t) \/ t \in Fields \/ t \in {"USD", "x"}

Tok(s, i) == IF i \in 1..Len(s) THEN s[i] ELSE ""

RECURSIVE CountDigits(_, _)
CountDigits(s, p) ==
    IF IsDigit(Tok(s, p)) THEN 1 + CountDigits(s, p + 1) ELSE 0

RECURSIVE SkipSpaces(_, _)
SkipSpaces(s, p) == IF Tok(s, p) = " " THEN SkipSpaces(s, p + 1) ELSE p

SkipQuote(s, p) == IF Tok(s, p) = Quote THEN p + 1 ELSE p

RECURSIVE SkipNonDigits(_, _)
SkipNonDigits(s, p) ==
    IF p > Len(s) \/ IsDigit(s[p]) THEN p ELSE SkipNonDigits(s, p + 1)

\* [\d]{1,3} from p (greedy)
EndInt(s, p) == p + Min(3, CountDigits(s, p))

\* (?:[,]\d{3})* from q (greedy)
RECURSIVE EndGroups(_, _)
EndGroups(s, q) ==
    IF Tok(s, q) = "," /\ CountDigits(s, q + 1) >= 3
    THEN EndGroups(s, q + 4) ELSE q

\* (?:\.\d+)? from q (greedy)
EndFrac(s, q) ==
    IF Tok(s, q) = "." /\ IsDigit(Tok(s, q + 1))
    THEN q + 1 + CountDigits(s, q + 1) ELSE q

\* group 1 of the key patterns, started at p: nothing follows the group
\* but an optional quote, so the greedy match stands.  0 when no digit.
NumEnd(s, p) ==
    IF ~IsDigit(Tok(s, p)) THEN 0
    ELSE EndFrac(s, EndGroups(s, EndInt(s, p)))

\* group 1 of the USD pattern, started at p: the trailing \b makes the
\* engine give back the fraction, then one comma group
NumEndBoundary(s, p) ==
    IF ~IsDigit(Tok(s, p)) THEN 0
    ELSE LET i == EndInt(s, p)
             g == EndGroups(s, i)
             f == EndFrac(s, g)
         IN  IF f > g /\ ~IsWordTok(Tok(s, f)) THEN f
             ELSE IF ~IsWordTok(Tok(s, g)) THEN g
             ELSE IF g > i THEN g - 4
             ELSE 0

\* (?i)key without \b: "price" also matches the tail of xauPrice, lastPrice
KeyMatches(key, t) ==
    IF key = "price" THEN t \in {"price", "xauPrice", "lastPrice"}
    ELSE t = key

\* the pattern of `key` tried with its key at position p: group 1, or <<>>
MatchKeyAt(key, s, p) ==
    IF ~KeyMatches(key, Tok(s, p)) THEN <<>>
    ELSE LET a == SkipSpaces(s, SkipQuote(s, p + 1))
         IN  IF Tok(s, a) \notin {":", "="} THEN <<>>
             ELSE LET b == SkipQuote(s, SkipSpaces(s, a + 1))
                      e == NumEnd(s, b)
                  IN  IF e = 0 THEN <<>> ELSE SubSeq(s, b, e - 1)

\* \bUSD[^0-9]*(...)\b with USD at position p
MatchUsdAt(s, p) ==
    IF Tok(s, p) # "USD" \/ IsWordTok(Tok(s, p - 1)) THEN <<>>
    ELSE LET b == SkipNonDigits(s, p + 1)
             e == NumEndBoundary(s, b)
         IN  IF e = 0 THEN <<>> ELSE SubSeq(s, b, e - 1)

MatchAt(pat, s, p) ==
    IF pat = "USD" THEN MatchUsdAt(s, p) ELSE MatchKeyAt(pat, s, p)

\* re.search(pat, js_text): group 1 of the leftmost match, <<>> if none
RECURSIVE Search(_, _, _)
Search(pat, s, p) ==
    IF p > Len(s) THEN <<>>
    ELSE IF MatchAt(pat, s, p) # <<>> THEN MatchAt(pat, s, p)
    ELSE Search(pat, s, p + 1)

\* .replace(",", "")
RECURSIVE StripCommas(_)
StripCommas(g) ==
    IF g = <<>> THEN <<>>
    ELSE IF Head(g) = "," THEN StripCommas(Tail(g))
    ELSE <<Head(g)>> \o StripCommas(Tail(g))

\* digits read as an integer
RECURSIVE DigitsValue(_)
DigitsValue(ds) ==
    IF ds = <<>> THEN 0
    ELSE DigitsValue(SubSeq(ds, 1, Len(ds) - 1)) * 10 + DigitVal(ds[Len(ds)])

\* float(text) for digits [. digits], in hundredths (two decimals kept)
ParseFloatText(g) ==
    LET n == CountDigits(g, 1)
        frac == SubSeq(g, n + 2, Len(g))
        f2 == SubSeq(frac \o <<"0", "0">>, 1, 2)
    IN  F(DigitsValue(SubSeq(g, 1, n)) * 100 + DigitsValue(f2))

Patterns == <<"USD", "xauPrice", "price", "lastPrice", "ask">>

\* for pat in (...): first pattern with a match decides
RECURSIVE ScrapePatterns(_, _)
ScrapePatterns(s, i) ==
    IF i > Len(Patterns) THEN None
    ELSE LET g == Search(Patterns[i], s, 1)
         IN  IF g # <<>> THEN ParseFloatText(StripCommas(g))
             ELSE ScrapePatterns(s, i + 1)

\* the fallback try block: resp is [ok, text]
WidgetValue(resp) ==
    IF ~resp.ok THEN None ELSE ScrapePatterns(resp.text, 1)

----------------------------------------------------------------------------
(* Responses the network can give *)

KeyIdx(k) == CHOOSE i \in 1..Len(FieldNames) : FieldNames[i] = k

\* a mapping whose numeric fields hold base + the field's rank
MkMap(c, base) ==
    [k \in Fields |->
        IF c[k] = "num" THEN JNum(base + KeyIdx(k))
        ELSE IF c[k] = "str" THEN JStr
        ELSE JAbsent]

EmptyMap == [k \in Fields |-> JAbsent]

ItemMaps == {MkMap(c, 1000) : c \in [Fields -> {"absent", "str", "num"}]}

FlatMaps == {MkMap(c, 2000) : c \in [Fields -> {"absent", "str", "num"}]}

TopMaps ==
    {MkMap(c, 2000) :
        c \in {f \in [Fields -> {"absent", "num"}] :
                 f["ask"] = "absent" /\ f["lastPrice"] = "absent"}}

SpecialMaps ==
    {[EmptyMap EXCEPT !["xauPrice"] = x, !["price"] = y] :
        x \in {JTrue, JNaN, JHuge, JNum(0), JNum(-5)},
        y \in {JAbsent, JNum(2002)}}

NoItem == [t |-> "none", m |-> EmptyMap]

ApiResponses ==
    {[kind |-> k, items |-> "absent", item |-> NoItem, top |-> EmptyMap] :
        k \in {"neterr", "badjson", "other"}}
    \cup {[kind |-> "dict", items |-> i, item |-> NoItem, top |-> m] :
            i \in {"absent", "falsy"}, m \in FlatMaps \cup SpecialMaps}
    \cup {[kind |-> "dict", items |-> i, item |-> NoItem, top |-> m] :
            i \in {"dict", "scalar"}, m \in TopMaps}
    \cup {[kind |-> "dict", items |-> "list",
           item |-> [t |-> "dict", m |-> im], top |-> m] :
            im \in ItemMaps, m \in TopMaps}
    \cup {[kind |-> "dict", items |-> "list",
           item |-> [t |-> it, m |-> EmptyMap], top |-> m] :
            it \in {"scalar", "text", "textkey"}, m \in TopMaps}

RECURSIVE SeqsUpTo(_, _)
SeqsUpTo(S, n) ==
    IF n = 0 THEN {<<>>}
    ELSE LET shorter == SeqsUpTo(S, n - 1)
         IN  shorter \cup {Append(q, x) : q \in shorter, x \in S}

\* number texts: every text over a digit, "," and "." up to MaxNumLen,
\* and the two texts 2345.67 and 2,345.67
NumTexts ==
    SeqsUpTo({"2", ",", "."}, MaxNumLen)
    \cup {<<"2", "3", "4", "5", ".", "6", "7">>,
          <<"2", ",", "3", "4", "5", ".", "6", "7">>}

\* "key": n   or   "key": "n"
KeyEntry(key, quoted, n) ==
    <<Quote, key, Quote, ":", " ">>
    \o (IF quoted THEN <<Quote>> \o n \o <<Quote>> ELSE n)

\* USD n, followed by `tail`
UsdEntry(n, tail) == <<"USD", " ">> \o n \o tail

WidgetTexts ==
    {KeyEntry(k, q, n) : k \in {"price", "ask"}, q \in BOOLEAN, n \in NumTexts}
    \cup {UsdEntry(n, tl) : n \in NumTexts, tl \in {<<>>, <<"x">>}}
    \cup {KeyEntry(k1, FALSE, <<"5">>) \o <<" ">> \o KeyEntry(k2, FALSE, <<"7">>) :
            k1 \in Fields, k2 \in Fields}
    \cup {KeyEntry(k, FALSE, <<"5">>) \o <<" ">> \o UsdEntry(<<"7">>, <<>>) :
            k \in Fields}
    \cup {UsdEntry(<<>>, <<"x", " ">>) \o KeyEntry(k, TRUE, <<"7">>) :
            k \in Fields}
    \cup {<<"x", "USD", " ", "5">>, <<"x", " ", "0">>,
          <<"price", "=", "0">>, <<"ask", " ", "5">>}

WidgetResponses ==
    {[ok |-> FALSE, text |-> <<>>]}
    \cup {[ok |-> TRUE, text |-> s] : s \in WidgetTexts}

D(y, m, d) == [y |-> y, m |-> m, d |-> d]

DateTexts ==
    {[fmt |-> FALSE, y |-> 2023, m |-> 1, d |-> 10],
     [fmt |-> TRUE, y |-> 2023, m |-> 2, d |-> 30],
     [fmt |-> TRUE, y |-> 2023, m |-> 1, d |-> 10],
     [fmt |-> TRUE, y |-> 2022, m |-> 2, d |-> 28]}

CloseTexts ==
    {[t |-> "float", v |-> 0], [t |-> "float", v |-> -500],
     [t |-> "float", v |-> 180000], [t |-> "nan", v |-> 0],
     [t |-> "bad", v |-> 0]}

ShortLine ==
    [ncols |-> 4, d_s |-> [fmt |-> TRUE, y |-> 2023, m |-> 1, d |-> 10],
     close_s |-> [t |-> "float", v |-> 180000]]

CsvLines ==
    {ShortLine}
    \cup {[ncols |-> 5, d_s |-> d, close_s |-> c] :
            d \in DateTexts, c \in CloseTexts}

\* every file: fetch failure, empty body, first line + up to MaxRows rows
CsvResponses ==
    {[ok |-> FALSE, lines |-> <<>>]}
    \cup {[ok |-> TRUE, lines |-> ls] : ls \in SeqsUpTo(CsvLines, MaxRows + 1)}

\* the files the handler's fetch is given: a header and rows out of a few
HandlerLines ==
    {l \in CsvLines :
        /\ l.ncols = 5
        /\ l.d_s.fmt
        /\ ValidDate(l.d_s.y, l.d_s.m, l.d_s.d)
        /\ l.close_s.t = "float"
        /\ l.close_s.v # -500}

HandlerCsvResponses ==
    {[ok |-> FALSE, lines |-> <<>>]}
    \cup {[ok |-> TRUE, lines |-> <<ShortLine>> \o ls] :
            ls \in SeqsUpTo(HandlerLines, MaxRows)}

Todays == {D(2024, 2, 29), D(2023, 6, 15)}

PurchaseInputs == {F(0), F(100000)}

YearsInputs == {1, 3000}

----------------------------------------------------------------------------
(* The Calculate handler, with get_spot_usd_per_oz stepped fetch by fetch  *)

NoApi == [kind |-> "none", items |-> "absent", item |-> NoItem, top |-> EmptyMap]

NoJs == [ok |-> FALSE, text |-> <<>>]

NoPayload == [api |-> NoApi, js |-> NoJs]

NoRes ==
    [spot |-> None, hist_date |-> NoDate, hist_price |-> None,
     ounces_now |-> None, grams_now |-> None,
     ounces_then |-> None, grams_then |-> None, change_pct |-> None]

PipeIdle ==
    /\ pc = "idle"
    /\ idx = 1
    /\ contacted = <<>>
    /\ yielded = <<>>
    /\ payload = NoPayload
    /\ spot = None
    /\ purchase_price = F(100000)
    /\ years_ago = 2
    /\ target = NoDate
    /\ outcome = "none"
    /\ res = NoRes

FnIdle ==
    /\ csv_rows = [ok |-> FALSE, lines |-> <<>>]
    /\ s_out = <<>>
    /\ c_series = <<>>
    /\ c_target = NoDate
    /\ c_best = NoPoint
    /\ y_today = NoDate
    /\ y_n = 0
    /\ y_ret = NoDate
    /\ fpc = "none"

Init == PipeIdle /\ FnIdle

\* the button is pressed with the widgets holding p and y
Calculate(p, y) ==
    /\ pc = "idle"
    /\ purchase_price' = p
    /\ years_ago' = y
    /\ pc' = "api"
    /\ idx' = 1
    /\ UNCHANGED <<contacted, yielded, payload, spot, target, outcome, res>>
    /\ UNCHANGED fnVars

\* the loop giving up on the remaining candidates after a failure
FetchApiSkip(r) ==
    /\ pc = "api"
    /\ LET v == ApiValue(r)
       IN  /\ contacted' = Append(contacted, API_CANDIDATES[idx])
           /\ yielded' = Append(yielded, v)
           /\ payload' = [api |-> r, js |-> NoJs]
           /\ IF v # None
              THEN /\ spot' = v
                   /\ pc' = "returned"
                   /\ idx' = idx
              ELSE /\ spot' = spot
                   /\ idx' = idx + 1
                   /\ pc' = "widget"
    /\ UNCHANGED <<purchase_price, years_ago, target, outcome, res>>
    /\ UNCHANGED fnVars

\* one iteration of `for url in API_CANDIDATES`, the network answering r
FetchApi(r) ==
    /\ pc = "api"
    /\ LET v == ApiValue(r)
       IN  /\ contacted' = Append(contacted, API_CANDIDATES[idx])
           /\ yielded' = Append(yielded, v)
           /\ payload' = [api |-> r, js |-> NoJs]
           /\ IF v # None
              THEN /\ spot' = v
                   /\ pc' = "returned"
                   /\ idx' = idx
              ELSE /\ spot' = spot
                   /\ idx' = idx + 1
                   /\ pc' = IF idx < Len(API_CANDIDATES) THEN "api" ELSE "widget"
    /\ UNCHANGED <<purchase_price, years_ago, target, outcome, res>>
    /\ UNCHANGED fnVars

\* the fallback block, the network answering r
FetchWidget(r) ==
    /\ pc = "widget"
    /\ LET v == WidgetValue(r)
       IN  /\ contacted' = Append(contacted, WIDGET_JS)
           /\ yielded' = Append(yielded, v)
           /\ payload' = [api |-> NoApi, js |-> r]
           /\ spot' = v
           /\ pc' = "returned"
    /\ UNCHANGED <<idx, purchase_price, years_ago, target, outcome, res>>
    /\ UNCHANGED fnVars

\* spot <= 0 on a float (False for nan)
NotPositive(x) == x.t = "float" /\ x.v <= 0

\* a - b and a * 100 on floats
FSub(a, b) ==
    IF a.t = "raise" \/ b.t = "raise" THEN Raise
    ELSE IF a.t = "nan" \/ b.t = "nan" THEN NaN
    ELSE F(a.v - b.v)

FTimes100(a) == IF a.t = "float" THEN F(a.v * 100) ELSE a

\* the handler from the spot test to the call of get_stooq_series
AfterSpot(today) ==
    /\ pc = "returned"
    /\ IF spot = Raise
       THEN /\ outcome' = "exception"
            /\ pc' = "done"
            /\ UNCHANGED <<target, res>>
       ELSE IF spot = None \/ NotPositive(spot)
       THEN /\ outcome' = "spot unavailable"
            /\ pc' = "done"
            /\ UNCHANGED <<target, res>>
       ELSE LET spot_per_g == FDiv(spot, F(TROY_OUNCE_IN_GRAMS))
                ounces_now == FDiv(purchase_price, spot)
                grams_now == FDiv(purchase_price, spot_per_g)
                tg == years_ago_date(today, years_ago)
            IN  IF Raise \in {ounces_now, grams_now} \/ tg = RaiseDate
                THEN /\ outcome' = "exception"
                     /\ pc' = "done"
                     /\ UNCHANGED <<target, res>>
                ELSE /\ target' = tg
                     /\ res' = [res EXCEPT !.spot = spot,
                                           !.ounces_now = ounces_now,
                                           !.grams_now = grams_now]
                     /\ pc' = "hist"
                     /\ UNCHANGED outcome
    /\ UNCHANGED <<idx, contacted, yielded, payload, spot, purchase_price,
                   years_ago>>
    /\ UNCHANGED fnVars

\* change_pct = (spot - hist_price) / hist_price * 100 if hist_price else nan
ChangePct(sp, hist_price) ==
    IF hist_price.t = "float" /\ hist_price.v = 0 THEN NaN
    ELSE FTimes100(FDiv(FSub(sp, hist_price), hist_price))

\* the handler from get_stooq_series on, the network answering r
FetchSeries(r) ==
    /\ pc = "hist"
    /\ LET series == get_stooq_series(r)
           hist == closest_price(series, target)
           hist_per_g == FDiv(hist.price, F(TROY_OUNCE_IN_GRAMS))
           ounces_then == FDiv(purchase_price, hist.price)
           grams_then == FDiv(purchase_price, hist_per_g)
       IN  IF hist = NoPoint
           THEN /\ outcome' = "historical unavailable"
                /\ UNCHANGED res
           ELSE IF Raise \in {ounces_then, grams_then}
           THEN /\ outcome' = "exception"
                /\ UNCHANGED res
           ELSE /\ outcome' = "result"
                /\ res' = [res EXCEPT !.hist_date = hist.date,
                                      !.hist_price = hist.price,
                                      !.ounces_then = ounces_then,
                                      !.grams_then = grams_then,
                                      !.change_pct = ChangePct(spot, hist.price)]
    /\ pc' = "done"
    /\ UNCHANGED <<idx, contacted, yielded, payload, spot, purchase_price,
                   years_ago, target>>
    /\ UNCHANGED fnVars

Next ==
    \/ \E p \in PurchaseInputs, y \in YearsInputs : Calculate(p, y)
    \/ \E r \in ApiResponses : FetchApi(r)
    \/ \E r \in WidgetResponses : FetchWidget(r)
    \/ \E today \in Todays : AfterSpot(today)
    \/ \E r \in HandlerCsvResponses : FetchSeries(r)

Spec == Init /\ [][Next]_vars

----------------------------------------------------------------------------
(* get_stooq_series on every small file *)

InitSeries ==
    /\ PipeIdle
    /\ csv_rows \in CsvResponses
    /\ s_out = <<>>
    /\ c_series = <<>>
    /\ c_target = NoDate
    /\ c_best = NoPoint
    /\ y_today = NoDate
    /\ y_n = 0
    /\ y_ret = NoDate
    /\ fpc = "series"

RunSeries ==
    /\ fpc = "series"
    /\ s_out' = get_stooq_series(csv_rows)
    /\ fpc' = "series_done"
    /\ UNCHANGED <<csv_rows, c_series, c_target, c_best, y_today, y_n, y_ret>>
    /\ UNCHANGED pipeVars

NextSeries == RunSeries

SpecSeries == InitSeries /\ [][NextSeries]_vars

----------------------------------------------------------------------------
(* closest_price on every small sorted series *)

ClosestDates == {D(2022, 12, 31), D(2023, 1, 1), D(2023, 1, 4), D(2023, 1, 10)}

TargetDates == ClosestDates \cup {D(2023, 1, 7), D(2024, 2, 29)}

Points == {[date |-> d, price |-> F(v)] : d \in ClosestDates, v \in {10000, 11000}}

SortedSeries ==
    {q \in SeqsUpTo(Points, MaxSeriesLen) :
        \A i \in 1..(Len(q) - 1) : ~DateLess(q[i + 1].date, q[i].date)}

InitClosest ==
    /\ PipeIdle
    /\ csv_rows = [ok |-> FALSE, lines |-> <<>>]
    /\ s_out = <<>>
    /\ c_series \in SortedSeries
    /\ c_target \in TargetDates
    /\ c_best = NoPoint
    /\ y_today = NoDate
    /\ y_n = 0
    /\ y_ret = NoDate
    /\ fpc = "closest"

RunClosest ==
    /\ fpc = "closest"
    /\ c_best' = closest_price(c_series, c_target)
    /\ fpc' = "closest_done"
    /\ UNCHANGED <<csv_rows, s_out, c_series, c_target, y_today, y_n, y_ret>>
    /\ UNCHANGED pipeVars

NextClosest == RunClosest

SpecClosest == InitClosest /\ [][NextClosest]_vars

----------------------------------------------------------------------------
(* years_ago_date on the month ends and middles of some years *)

YearTodays ==
    {D(y, m, d) : y \in {2000, 2023, 2024}, m \in 1..12,
                  d \in {1, 28, 29, 30, 31}}
    \cap {dt \in [y : {2000, 2023, 2024}, m : 1..12, d : 1..31] :
            ValidDate(dt.y, dt.m, dt.d)}

InitYears ==
    /\ PipeIdle
    /\ csv_rows = [ok |-> FALSE, lines |-> <<>>]
    /\ s_out = <<>>
    /\ c_series = <<>>
    /\ c_target = NoDate
    /\ c_best = NoPoint
    /\ y_today \in YearTodays
    /\ y_n \in (0..MaxYearsBack) \cup {y_today.y - 1, y_today.y}
    /\ y_ret = NoDate
    /\ fpc = "years"

RunYears ==
    /\ fpc = "years"
    /\ y_ret' = years_ago_date(y_today, y_n)
    /\ fpc' = "years_done"
    /\ UNCHANGED <<csv_rows, s_out, c_series, c_target, c_best, y_today, y_n>>
    /\ UNCHANGED pipeVars

NextYears == RunYears

SpecYears == InitYears /\ [][NextYears]_vars

----------------------------------------------------------------------------
(* Properties of the spot price resolver *)

SourceOrder == API_CANDIDATES \o <<WIDGET_JS>>

Resolved == pc \in {"returned", "hist", "done"}

AllFailed == \A i \in 1..Len(yielded) : yielded[i] = None

\* C1: in a run of get_spot_usd_per_oz the sources are contacted in the
\* order candidate 1, candidate 2, widget script, each at most once, a
\* source only after every earlier one failed, and the value returned is
\* that of the first source that yields one.
C1_OrderedFallback ==
    /\ Len(contacted) <= Len(SourceOrder)
    /\ contacted = SubSeq(SourceOrder, 1, Len(contacted))
    /\ Len(yielded) = Len(contacted)
    /\ \A i \in 1..(Len(yielded) - 1) : yielded[i] = None
    /\ Resolved =>
          /\ Len(yielded) >= 1
          /\ spot = yielded[Len(yielded)]
          /\ spot = None => Len(contacted) = Len(SourceOrder)

C1_Witness ==
    /\ pc = "returned"
    /\ contacted = SourceOrder
    /\ spot # None

\* C2: get_spot_usd_per_oz never raises: whatever each source answers, it
\* returns a float or None, and None exactly when no source yielded.
C2_NeverRaises ==
    Resolved =>
        /\ spot.t \in {"float", "nan", "none"}
        /\ \A i \in 1..Len(yielded) : yielded[i].t \in {"float", "nan", "none"}
        /\ (spot = None) <=> (Len(yielded) = Len(SourceOrder) /\ AllFailed)

C2_Witness ==
    /\ pc = "returned"
    /\ spot = None
    /\ payload.js.ok
    /\ Len(contacted) = Len(SourceOrder)

Present(m) == {i \in 1..Len(FieldNames) : m[FieldNames[i]].t # "absent"}

NumericIn(m) == {i \in 1..Len(FieldNames) : m[FieldNames[i]].t = "num"}

Lowest(S) == CHOOSE i \in S : \A j \in S : i <= j

\* the mapping a documented payload is read from: the first item of
\* {"items": [{...}]}, the mapping itself when it is flat
Inspected(resp) == IF resp.items = "list" THEN resp.item.m ELSE resp.top

\* the documented shapes: {"items": [{numeric fields}]} or a flat mapping
\* of numeric fields, with at least one known field
Documented(resp) ==
    /\ resp.kind = "dict"
    /\ \/ resp.items = "list" /\ resp.item.t = "dict"
       \/ resp.items = "absent"
    /\ Present(Inspected(resp)) # {}
    /\ Present(Inspected(resp)) = NumericIn(Inspected(resp))

\* C3: for a payload of the documented shapes the resolver returns the
\* value of the highest-priority known field present (xauPrice, price, ask,
\* lastPrice), so xauPrice whenever xauPrice and price both exist.
C3_PriorityOrder ==
    Documented(payload.api) =>
        /\ Resolved
        /\ spot = F(100 * Inspected(payload.api)[
                        FieldNames[Lowest(Present(Inspected(payload.api)))]].v)

C3_Witness ==
    /\ pc = "returned"
    /\ Documented(payload.api)
    /\ payload.api.items = "list"
    /\ {1, 2} \subseteq Present(payload.api.item.m)
    /\ spot = F(100 * payload.api.item.m["xauPrice"].v)

\* what the last contacted source produced
LastYield == yielded[Len(yielded)]

ItemsOfMapping(resp) ==
    resp.kind = "dict" /\ resp.items = "list" /\ resp.item.t = "dict"

FirstNumeric(m) ==
    IF NumericIn(m) = {} THEN None
    ELSE F(100 * m[FieldNames[Lowest(NumericIn(m))]].v)

\* C10 as stated: with a non-empty items list the top-level fields are not
\* inspected, so a first item without any numeric known field makes the
\* source fail.
C10_TopLevelNeverInspected ==
    (ItemsOfMapping(payload.api) /\ NumericIn(payload.api.item.m) = {})
        => LastYield = None

\* C10 amended: the first item is inspected first and wins when it carries
\* a numeric known field; when it carries none the top-level mapping is
\* inspected as well, and the source fails only if that has none either.
C10_ItemThenTopLevel ==
    ItemsOfMapping(payload.api) =>
        LastYield = IF NumericIn(payload.api.item.m) # {}
                    THEN FirstNumeric(payload.api.item.m)
                    ELSE FirstNumeric(payload.api.top)

C10_Witness ==
    /\ pc = "returned"
    /\ ItemsOfMapping(payload.api)
    /\ NumericIn(payload.api.item.m) = {}
    /\ spot = FirstNumeric(payload.api.top)
    /\ spot # None

\* a number written without separators: digits, optionally "." and digits
PlainNumber(n) ==
    LET c == CountDigits(n, 1)
    IN  /\ c >= 1
        /\ \/ c = Len(n)
           \/ /\ Tok(n, c + 1) = "."
              /\ Len(n) >= c + 2
              /\ CountDigits(n, c + 2) = Len(n) - c - 1

\* C4: when the structured sources fail, a script text "price": n yields
\* the full number n: 2345.67 for "price": 2345.67 and for
\* "price": "2,345.67".
C4_FullNumber ==
    (pc = "returned" /\ payload.js.ok) =>
        /\ \A n \in NumTexts :
              (PlainNumber(n) /\ payload.js.text = KeyEntry("price", FALSE, n))
                  => spot = ParseFloatText(n)
        /\ payload.js.text =
              KeyEntry("price", TRUE, <<"2", ",", "3", "4", "5", ".", "6", "7">>)
                  => spot = F(234567)

----------------------------------------------------------------------------
(* Properties of the historical series *)

\* C5: every point of the series get_stooq_series returns has a strictly
\* positive price.
C5_PositivePrices ==
    fpc = "series_done" =>
        \A i \in 1..Len(s_out) : s_out[i].price.t = "float" /\ s_out[i].price.v > 0

DataRows == IF csv_rows.ok /\ csv_rows.lines # <<>> THEN Tail(csv_rows.lines) ELSE <<>>

Accepted(l) ==
    /\ l.ncols >= 5
    /\ l.d_s.fmt
    /\ ValidDate(l.d_s.y, l.d_s.m, l.d_s.d)
    /\ l.close_s.t # "bad"

PointOf(l) ==
    [date |-> D(l.d_s.y, l.d_s.m, l.d_s.d),
     price |-> IF l.close_s.t = "nan" THEN NaN ELSE F(l.close_s.v)]

AcceptedPoints ==
    LET acc == SelectSeq(DataRows, Accepted)
    IN  [i \in 1..Len(acc) |-> PointOf(acc[i])]

\* C6: the first line is skipped; the series holds exactly the other rows
\* with 5 columns or more, a YYYY-MM-DD column 0 that is a calendar date
\* and a column 4 float() accepts; it is sorted by date, rows of one date
\* in file order; a failed fetch gives the empty series.
C6_ParsedSorted ==
    fpc = "series_done" =>
        /\ Len(s_out) = Len(AcceptedPoints)
        /\ \A i \in 1..(Len(s_out) - 1) : ~DateLess(s_out[i + 1].date, s_out[i].date)
        /\ \A k \in 1..Len(AcceptedPoints) :
              LET OnDay(p) == p.date = AcceptedPoints[k].date
              IN  SelectSeq(s_out, OnDay) = SelectSeq(AcceptedPoints, OnDay)
        /\ ~csv_rows.ok => s_out = <<>>

C6_Witness ==
    /\ fpc = "series_done"
    /\ Len(csv_rows.lines) = 3
    /\ Len(s_out) = 2
    /\ s_out = <<PointOf(csv_rows.lines[3]), PointOf(csv_rows.lines[2])>>
    /\ DateLess(s_out[1].date, s_out[2].date)

Dist(i) == Abs(Ordinal(c_series[i].date) - Ordinal(c_target))

\* C7: closest_price returns nothing exactly for the empty series;
\* otherwise the point of least day distance to the target, the first such
\* point of the series on a tie.
C7_NearestFirst ==
    fpc = "closest_done" =>
        /\ (c_best = NoPoint) <=> (c_series = <<>>)
        /\ c_series # <<>> =>
              \E i \in 1..Len(c_series) :
                  /\ c_best = c_series[i]
                  /\ \A j \in 1..Len(c_series) : Dist(i) <= Dist(j)
                  /\ \A j \in 1..(i - 1) : Dist(j) > Dist(i)

C7_Witness ==
    /\ fpc = "closest_done"
    /\ Len(c_series) >= 2
    /\ \E i, j \in 1..Len(c_series) :
          /\ i < j
          /\ DateLess(c_series[i].date, c_series[j].date)
          /\ Dist(i) = Dist(j)
          /\ \A k \in 1..Len(c_series) : Dist(i) <= Dist(k)
          /\ c_best = c_series[i]

\* C8: for a target year inside the calendar, years_ago_date(n) is a
\* calendar date of year today.year - n and today's month, with today's
\* day when that date exists and Feb 28 when today is Feb 29 and the
\* target year is not a leap year; it does not raise.
C8_Anniversary ==
    (fpc = "years_done" /\ (y_today.y - y_n) \in 1..9999) =>
        /\ y_ret # RaiseDate
        /\ ValidDate(y_ret.y, y_ret.m, y_ret.d)
        /\ y_ret.y = y_today.y - y_n
        /\ y_ret.m = y_today.m
        /\ ValidDate(y_ret.y, y_today.m, y_today.d) => y_ret.d = y_today.d
        /\ (y_today.m = 2 /\ y_today.d = 29 /\ ~IsLeap(y_ret.y)) => y_ret.d = 28

C8_Witness ==
    /\ fpc = "years_done"
    /\ y_today = D(2024, 2, 29)
    /\ y_n = 1
    /\ y_ret = D(2023, 2, 28)

----------------------------------------------------------------------------
(* Properties of the Calculate handler *)

\* C9: every run of the handler ends as "spot unavailable" (spot absent or
\* not positive), "historical unavailable" or a complete result, never in
\* an uncaught exception; a nearest point priced zero gives a result whose
\* percent change is nan.
C9_ThreeOutcomes ==
    pc = "done" =>
        /\ outcome \in {"spot unavailable", "historical unavailable", "result"}
        /\ outcome = "spot unavailable" <=> (spot = None \/ NotPositive(spot))
        /\ (outcome = "result" /\ res.hist_price = F(0)) => res.change_pct = NaN

====
